---------------------------- MODULE Spec2Model ----------------------------
(***************************************************************************)
(* Model of package types (src/types.go): NullTime, JSONRawMessage,        *)
(* NullJSONRawMessage and the helpers JSONScan / JSONValue.                *)
(*                                                                         *)
(* Byte sequences and Go strings are sequences of one-character strings.   *)
(* Go values of several dynamic types (driver.Value, interface{}) are      *)
(* records with a "kind" field.  Errors are strings, "nil" meaning no      *)
(* error.                                                                  *)
(*                                                                         *)
(* The library routines the package calls (fmt.Sprintf, sql.NullTime,      *)
(* time.Time's JSON methods, encoding/json) are modelled by what they do   *)
(* on the values of the model; each is mapped to the line that calls it.   *)
(***************************************************************************)
EXTENDS Integers, Sequences, FiniteSets, TLC

VARIABLES
    nt,      \* the NullTime a pointer receiver points at
    jm,      \* contents of the JSONRawMessage a pointer receiver points at
    njm,     \* contents of the NullJSONRawMessage a pointer receiver points at
    dst,     \* the caller's destination handed to JSONScan
    last     \* the last call: operation, receiver before, argument, result

vars == <<nt, jm, njm, dst, last>>

(***************************************************************************)
(* Bounds of the model.                                                    *)
(***************************************************************************)
\* longest payload / input byte sequence enumerated over Alphabet
MaxLen == 2
\* largest monotonic clock reading carried by a time.Time
MaxMono == 1
\* largest integer source value handed to JSONValue
MaxInt == 11

NoErr == "nil"
None == [kind |-> "none"]

\* the nil interface value
GoNil == [kind |-> "nil"]

\* a Go variable of the given type holding v
Var(type, v) == [type |-> type, v |-> v]

(***************************************************************************)
(* Characters, digits and decimal conversion (strconv / fmt behaviour).    *)
(***************************************************************************)
Digits == <<"0", "1", "2", "3", "4", "5", "6", "7", "8", "9">>

IsDigit(c) == \E i \in 1..10 : Digits[i] = c

DigitVal(c) == (CHOOSE i \in 1..10 : Digits[i] = c) - 1

AllDigits(s) == \A i \in 1..Len(s) : IsDigit(s[i])

RECURSIVE Itoa(_)
Itoa(n) == IF n < 10 THEN <<Digits[n + 1]>>
           ELSE Itoa(n \div 10) \o <<Digits[(n % 10) + 1]>>

RECURSIVE Atoi(_)
Atoi(s) == IF Len(s) = 0 THEN 0
           ELSE 10 * Atoi(SubSeq(s, 1, Len(s) - 1)) + DigitVal(s[Len(s)])

RECURSIVE Zeros(_)
Zeros(n) == IF n <= 0 THEN <<>> ELSE <<"0">> \o Zeros(n - 1)

\* n >= 0 in decimal, zero-padded on the left to at least w digits
Pad(n, w) == LET d == Itoa(n) IN Zeros(w - Len(d)) \o d

RECURSIVE TrimRightZeros(_)
TrimRightZeros(s) ==
    IF Len(s) > 0 /\ s[Len(s)] = "0" THEN TrimRightZeros(SubSeq(s, 1, Len(s) - 1))
    ELSE s

IsSpace(c) == c \in {" ", "\n"}

RECURSIVE TrimLeft(_)
TrimLeft(s) == IF Len(s) > 0 /\ IsSpace(s[1]) THEN TrimLeft(Tail(s)) ELSE s

RECURSIVE TrimRight(_)
TrimRight(s) ==
    IF Len(s) > 0 /\ IsSpace(s[Len(s)]) THEN TrimRight(SubSeq(s, 1, Len(s) - 1))
    ELSE s

TrimSpace(s) == TrimRight(TrimLeft(s))

NullLit == <<"n", "u", "l", "l">>
TrueLit == <<"t", "r", "u", "e">>
FalseLit == <<"f", "a", "l", "s", "e">>
Quote == "\""

(***************************************************************************)
(* time.Time.  An instant is the UTC year, the second within that year and *)
(* the nanosecond; a value also carries its Location and, possibly, a      *)
(* monotonic clock reading (mono = 0: none).  The second-of-year field     *)
(* stands for the month, day, hour, minute and second of the calendar.     *)
(***************************************************************************)
UTC == [name |-> "UTC", offset |-> 0]
Local == [name |-> "Local", offset |-> 3600]
LMT == [name |-> "LMT", offset |-> 1172]
EST == [name |-> "EST", offset |-> -18000]
Locations == {UTC, Local, LMT, EST}

FixedZone(name, offset) == [name |-> name, offset |-> offset]

IsLeap(y) == (y % 4 = 0) /\ ((y % 100 # 0) \/ (y % 400 = 0))

SecsInYear(y) == IF IsLeap(y) THEN 366 * 86400 ELSE 365 * 86400

ZeroTime == [year |-> 1, sec |-> 0, nsec |-> 0, loc |-> UTC, mono |-> 0]

\* time.Time.IsZero: the instant January 1, year 1, 00:00:00 UTC, in any Location
IsZero(t) == t.year = 1 /\ t.sec = 0 /\ t.nsec = 0

\* time.Time.Equal: the same instant, whatever the Location and monotonic reading
SameInstant(a, b) == a.year = b.year /\ a.sec = b.sec /\ a.nsec = b.nsec

\* (year, second) moved by d seconds, |d| less than a year
AddSec(year, sec, d) ==
    LET w == sec + d IN
    IF w < 0 THEN [year |-> year - 1, sec |-> w + SecsInYear(year - 1)]
    ELSE IF w >= SecsInYear(year) THEN [year |-> year + 1, sec |-> w - SecsInYear(year)]
    ELSE [year |-> year, sec |-> w]

\* the wall clock of t in its Location
Civil(t) == AddSec(t.year, t.sec, t.loc.offset)

\* The times of the model: the zero instant and its neighbour in three Locations;
\* the ends of the year range MarshalJSON accepts, where a Location moves the wall
\* clock across the end; and present-day times in every Location, with and
\* without a monotonic reading.
Times ==
    { [year |-> 1, sec |-> 0, nsec |-> n, loc |-> l, mono |-> 0] :
        n \in {0, 120000000}, l \in {UTC, Local, EST} }
    \cup
    { [year |-> y, sec |-> 0, nsec |-> 0, loc |-> l, mono |-> 0] :
        y \in {0, 10000}, l \in {UTC, Local, EST} }
    \cup
    { [year |-> 9999, sec |-> 31535999, nsec |-> 0, loc |-> l, mono |-> 0] :
        l \in {UTC, Local, EST} }
    \cup
    { [year |-> 2024, sec |-> 86400, nsec |-> 120000000, loc |-> l, mono |-> m] :
        l \in Locations, m \in 0..MaxMono }

(***************************************************************************)
(* RFC 3339 text of a time, as time.Time.MarshalJSON writes it and         *)
(* time.Time.UnmarshalJSON reads it:                                       *)
(*     YYYY "-" SSSSSSSS [ "." fraction ] ( "Z" | ("+"|"-") hh ":" mm )     *)
(***************************************************************************)
FormatYear(y) == IF y < 0 THEN <<"-">> \o Pad(-y, 4) ELSE Pad(y, 4)

\* ".999999999": the nanoseconds without trailing zeros, nothing when zero
FormatFrac(nsec) ==
    IF nsec = 0 THEN <<>> ELSE <<".">> \o TrimRightZeros(Pad(nsec, 9))

\* Go's offset / 60 truncates toward zero
ZoneMinutes(offset) == IF offset < 0 THEN -((-offset) \div 60) ELSE offset \div 60

\* "Z07:00": Z for a zero offset, else the offset in whole minutes
FormatZone(offset) ==
    IF offset = 0 THEN <<"Z">>
    ELSE LET zone == ZoneMinutes(offset)
             abs == IF zone < 0 THEN -zone ELSE zone
         IN (IF zone < 0 THEN <<"-">> ELSE <<"+">>)
            \o Pad(abs \div 60, 2) \o <<":">> \o Pad(abs % 60, 2)

FormatRFC3339Nano(t) ==
    LET c == Civil(t)
    IN FormatYear(c.year) \o <<"-">> \o Pad(c.sec, 8)
       \o FormatFrac(t.nsec) \o FormatZone(t.loc.offset)

\* time.Time.String, which fmt's %s verb calls:
\* "2006-01-02 15:04:05.999999999 -0700 MST" and " m=+<reading>" when monotonic
\* (the zone abbreviation is carried as one element)
TimeString(t) ==
    LET c == Civil(t)
        zone == ZoneMinutes(t.loc.offset)
        abs == IF zone < 0 THEN -zone ELSE zone
    IN FormatYear(c.year) \o <<"-">> \o Pad(c.sec, 8) \o FormatFrac(t.nsec)
       \o <<" ">> \o (IF zone < 0 THEN <<"-">> ELSE <<"+">>)
       \o Pad(abs \div 60, 2) \o Pad(abs % 60, 2)
       \o <<" ", t.loc.name>>
       \o (IF t.mono # 0 THEN <<" ", "m", "=", "+">> \o Itoa(t.mono) ELSE <<>>)

\* the digits at the front of s
RECURSIVE DigitRun(_)
DigitRun(s) ==
    IF Len(s) > 0 /\ IsDigit(s[1]) THEN <<s[1]>> \o DigitRun(Tail(s)) ELSE <<>>

\* fraction digits to nanoseconds: the first nine digits, right-padded with zeros
FracNanos(d) ==
    IF Len(d) >= 9 THEN Atoi(SubSeq(d, 1, 9)) ELSE Atoi(d \o Zeros(9 - Len(d)))

\* a zone suffix: [ok, utc, offset]
ParseZone(z) ==
    IF z = <<"Z">> THEN [ok |-> TRUE, utc |-> TRUE, offset |-> 0]
    ELSE IF /\ Len(z) = 6
            /\ z[1] \in {"+", "-"}
            /\ AllDigits(SubSeq(z, 2, 3))
            /\ z[4] = ":"
            /\ AllDigits(SubSeq(z, 5, 6))
            /\ Atoi(SubSeq(z, 2, 3)) < 24
            /\ Atoi(SubSeq(z, 5, 6)) < 60
         THEN LET m == (Atoi(SubSeq(z, 2, 3)) * 60 + Atoi(SubSeq(z, 5, 6))) * 60
              IN [ok |-> TRUE, utc |-> FALSE,
                  offset |-> IF z[1] = "-" THEN -m ELSE m]
         ELSE [ok |-> FALSE, utc |-> FALSE, offset |-> 0]

\* time.Parse(RFC3339, s): [ok, t].  The Location of the result is UTC for Z,
\* Local when the offset is Local's, and otherwise a fabricated unnamed zone.
ParseRFC3339(s) ==
    LET bad == [ok |-> FALSE, t |-> ZeroTime] IN
    IF ~ (/\ Len(s) >= 14
          /\ AllDigits(SubSeq(s, 1, 4))
          /\ s[5] = "-"
          /\ AllDigits(SubSeq(s, 6, 13)))
    THEN bad
    ELSE
      LET year == Atoi(SubSeq(s, 1, 4))
          wsec == Atoi(SubSeq(s, 6, 13))
          rest == SubSeq(s, 14, Len(s))
          hasFrac == rest[1] = "."
          frac == IF hasFrac THEN DigitRun(Tail(rest)) ELSE <<>>
          zoneTxt == IF hasFrac THEN SubSeq(rest, 2 + Len(frac), Len(rest)) ELSE rest
          z == ParseZone(zoneTxt)
      IN IF wsec >= SecsInYear(year) \/ (hasFrac /\ Len(frac) = 0) \/ ~z.ok
         THEN bad
         ELSE LET i == AddSec(year, wsec, -z.offset)
                  loc == IF z.utc THEN UTC
                         ELSE IF z.offset = Local.offset THEN Local
                         ELSE FixedZone("", z.offset)
              IN [ok |-> TRUE,
                  t |-> [year |-> i.year, sec |-> i.sec, nsec |-> FracNanos(frac),
                         loc |-> loc, mono |-> 0]]

\* time.Time.MarshalJSON: [b, err]
TimeMarshalJSON(t) ==
    LET c == Civil(t) IN
    IF c.year < 0 \/ c.year >= 10000
    THEN [b |-> <<>>, err |-> "Time.MarshalJSON: year outside of range [0,9999]"]
    ELSE [b |-> <<Quote>> \o FormatRFC3339Nano(t) \o <<Quote>>, err |-> NoErr]

\* time.Time.UnmarshalJSON on *t: [t, err].  null is a no-op.
TimeUnmarshalJSON(t, data) ==
    IF data = NullLit THEN [t |-> t, err |-> NoErr]
    ELSE IF Len(data) < 2 \/ data[1] # Quote \/ data[Len(data)] # Quote
    THEN [t |-> t, err |-> "Time.UnmarshalJSON: input is not a JSON string"]
    ELSE LET Parsed(p) == IF p.ok THEN [t |-> p.t, err |-> NoErr]
                          ELSE [t |-> t, err |-> "parsing time: cannot parse"]
         IN Parsed(ParseRFC3339(SubSeq(data, 2, Len(data) - 1)))

(***************************************************************************)
(* encoding/json syntax check, for the JSON texts of the model: null,      *)
(* true, false, a number, a string, with white space around.               *)
(***************************************************************************)
IsJSONString(s) ==
    /\ Len(s) >= 2
    /\ s[1] = Quote
    /\ s[Len(s)] = Quote
    /\ \A i \in 2..(Len(s) - 1) : s[i] \notin {Quote, "\\", "\n"}

IsJSONNumber(s) ==
    /\ Len(s) >= 1
    /\ AllDigits(s)
    /\ (Len(s) > 1 => s[1] # "0")

JSONValid(data) ==
    LET IsValue(s) ==
            s \in {NullLit, TrueLit, FalseLit} \/ IsJSONNumber(s) \/ IsJSONString(s)
    IN IsValue(TrimSpace(data))


(***************************************************************************)
(* driver.Value: nil (SQL NULL), string, []byte, int64 or time.Time.       *)
(***************************************************************************)
DNil == [kind |-> "nil"]
DString(s) == [kind |-> "string", s |-> s]
DBytes(b) == [kind |-> "bytes", b |-> b]
DInt(n) == [kind |-> "int64", n |-> n]
DTime(t) == [kind |-> "time", t |-> t]

(***************************************************************************)
(* NullTime                                                                *)
(***************************************************************************)
\* sql.NullTime.Scan: [Time, Valid, err].  NULL gives the zero Time; a time.Time is
\* copied as it is; convertAssign stores no other driver value into a *time.Time.
SqlNullTimeScan(value) ==
    IF value.kind = "nil"
    THEN [Time |-> ZeroTime, Valid |-> FALSE, err |-> NoErr]
    ELSE IF value.kind = "time"
    THEN [Time |-> value.t, Valid |-> TRUE, err |-> NoErr]
    ELSE [Time |-> ZeroTime, Valid |-> TRUE,
          err |-> "unsupported Scan, storing driver.Value into type *time.Time"]

\* sql.NullTime.Value: [val, err]
SqlNullTimeValue(n) ==
    IF ~n.Valid THEN [val |-> DNil, err |-> NoErr]
    ELSE [val |-> DTime(n.Time), err |-> NoErr]

\* json.Marshal of a *time.Time: [b, err]
JSONMarshalTimePtr(t) ==
    IF t = None THEN [b |-> NullLit, err |-> NoErr]
    ELSE LET Marshaled(r) ==
                 IF r.err # NoErr
                 THEN [b |-> <<>>,
                       err |-> "json: error calling MarshalJSON for type *time.Time"]
                 ELSE r
         IN Marshaled(TimeMarshalJSON(t.elem))

\* json.Unmarshal(data, &t) for a time.Time t: [t, err]
JSONUnmarshalTime(t, data) ==
    IF ~JSONValid(data) THEN [t |-> t, err |-> "json: syntax error"]
    ELSE TimeUnmarshalJSON(t, TrimSpace(data))

\* func (ns *NullTime) Scan(value interface{}) error: [ns, err]
NullTimeScan(ns, value) ==
    LET Scanned(v) == IF v.err # NoErr THEN [ns |-> ns, err |-> v.err]
                      ELSE [ns |-> v.Time, err |-> NoErr]
    IN Scanned(SqlNullTimeScan(value))

\* func (ns NullTime) MarshalJSON() ([]byte, error): [b, err]
NullTimeMarshalJSON(ns) ==
    LET t == IF ~IsZero(ns) THEN [kind |-> "ptr", elem |-> ns] ELSE None
    IN JSONMarshalTimePtr(t)

\* a variant that decodes into the receiver itself instead of a fresh time.Time
NullTimeUnmarshalJSONInPlace(ns, data) ==
    LET Decoded(r) == IF r.err # NoErr THEN [ns |-> ns, err |-> r.err]
                      ELSE [ns |-> r.t, err |-> NoErr]
    IN Decoded(JSONUnmarshalTime(ns, data))

\* a variant that never stores the decoded time
NullTimeUnmarshalJSONNoStore(ns, data) ==
    LET r == JSONUnmarshalTime(ZeroTime, data)
    IN [ns |-> ns, err |-> r.err]

\* func (ns *NullTime) UnmarshalJSON(data []byte) error: [ns, err]
NullTimeUnmarshalJSON(ns, data) ==
    LET Decoded(r) == IF r.err # NoErr THEN [ns |-> ns, err |-> r.err]
                      ELSE [ns |-> r.t, err |-> NoErr]
    IN Decoded(JSONUnmarshalTime(ZeroTime, data))

\* a variant that reports every time as valid
NullTimeValueAlwaysValid(ns) ==
    SqlNullTimeValue([Valid |-> TRUE, Time |-> ns])

\* func (ns NullTime) Value() (driver.Value, error): [val, err]
NullTimeValue(ns) ==
    SqlNullTimeValue([Valid |-> ~IsZero(ns), Time |-> ns])

(***************************************************************************)
(* The calls on a NullTime.  Value and MarshalJSON have value receivers    *)
(* and are called on any NullTime; Scan and UnmarshalJSON write through    *)
(* the pointer to nt.  A Scan may read back what the last Value returned   *)
(* and an UnmarshalJSON what the last MarshalJSON returned; last.src then  *)
(* is the NullTime that was written out.                                   *)
(***************************************************************************)
TimeDriverValues ==
    {DNil, DString(<<"x">>), DString(NullLit), DBytes(<<"x">>), DInt(1)}
    \cup {DTime(t) : t \in Times}

TimeJSONInputs ==
    { NullLit, <<" ">> \o NullLit \o <<"\n">>, <<>>, <<"n", "u", "l">>, <<"1">>,
      TrueLit, <<Quote, "x", Quote>>, <<Quote, Quote>>,
      <<Quote>> \o Pad(2024, 4) \o <<"-">> \o Pad(86400, 8) \o <<"Z", Quote>>,
      <<Quote>> \o Pad(2024, 4) \o <<"-">> \o Pad(86400, 8) \o <<Quote>>,
      <<Quote>> \o Pad(2023, 4) \o <<"-">> \o Pad(31536000, 8) \o <<"Z", Quote>>,
      <<Quote>> \o Pad(1, 4) \o <<"-">> \o Pad(0, 8) \o <<"Z", Quote>>,
      <<Quote>> \o Pad(2024, 4) \o <<"-">> \o Pad(7, 8) \o <<".", "5">>
          \o <<"+", "2", "4", ":", "0", "0", Quote>> }

CallNullTimeScan ==
    \/ \E value \in TimeDriverValues :
         \E r \in {NullTimeScan(nt, value)} :
            /\ nt' = r.ns
            /\ last' = [op |-> "NullTime.Scan", recv |-> nt, arg |-> value,
                        src |-> None, err |-> r.err]
            /\ UNCHANGED <<jm, njm, dst>>
    \/ /\ last.op = "NullTime.Value"
       /\ last.err = NoErr
       /\ \E r \in {NullTimeScan(nt, last.val)} :
             /\ nt' = r.ns
             /\ last' = [op |-> "NullTime.Scan", recv |-> nt, arg |-> last.val,
                         src |-> last.recv, err |-> r.err]
             /\ UNCHANGED <<jm, njm, dst>>

CallNullTimeMarshalJSON ==
    \E t \in Times :
       \E r \in {NullTimeMarshalJSON(t)} :
          /\ last' = [op |-> "NullTime.MarshalJSON", recv |-> t, b |-> r.b,
                      err |-> r.err]
          /\ UNCHANGED <<nt, jm, njm, dst>>

CallNullTimeUnmarshalJSON ==
    \/ \E data \in TimeJSONInputs :
         \E r \in {NullTimeUnmarshalJSON(nt, data)} :
            /\ nt' = r.ns
            /\ last' = [op |-> "NullTime.UnmarshalJSON", recv |-> nt, arg |-> data,
                        src |-> None, err |-> r.err]
            /\ UNCHANGED <<jm, njm, dst>>
    \/ /\ last.op = "NullTime.MarshalJSON"
       /\ last.err = NoErr
       /\ \E r \in {NullTimeUnmarshalJSON(nt, last.b)} :
             /\ nt' = r.ns
             /\ last' = [op |-> "NullTime.UnmarshalJSON", recv |-> nt, arg |-> last.b,
                         src |-> last.recv, err |-> r.err]
             /\ UNCHANGED <<jm, njm, dst>>

CallNullTimeValue ==
    \E t \in Times :
       \E r \in {NullTimeValue(t)} :
          /\ last' = [op |-> "NullTime.Value", recv |-> t, val |-> r.val,
                      err |-> r.err]
          /\ UNCHANGED <<nt, jm, njm, dst>>

Start == [op |-> "new"]

InitTime ==
    /\ nt \in Times
    /\ jm = <<>>
    /\ njm = <<>>
    /\ dst = Var("iface", None)
    /\ last = Start

NextTime ==
    \/ CallNullTimeScan
    \/ CallNullTimeMarshalJSON
    \/ CallNullTimeUnmarshalJSON
    \/ CallNullTimeValue

SpecTime == InitTime /\ [][NextTime]_vars


(***************************************************************************)
(* JSONRawMessage and NullJSONRawMessage: []byte contents.                 *)
(***************************************************************************)
Alphabet == {"{", "x"}

RECURSIVE SeqsUpTo(_)
SeqsUpTo(n) ==
    IF n = 0 THEN {<<>>}
    ELSE LET shorter == SeqsUpTo(n - 1)
         IN shorter \cup {Append(q, c) : q \in shorter, c \in Alphabet}

\* the byte sequences of the model: everything up to MaxLen, and the token null
Payloads == SeqsUpTo(MaxLen) \cup {NullLit}

NilVerb == <<"%", "!", "s", "(", "<", "n", "i", "l", ">", ")">>

\* fmt.Sprintf("%s", value): a string or []byte as it is, a time.Time through its
\* String method, and fmt's bad-verb text for nil and for an integer
Sprintf(value) ==
    CASE value.kind = "nil" -> NilVerb
      [] value.kind = "string" -> value.s
      [] value.kind = "bytes" -> value.b
      [] value.kind = "time" -> TimeString(value.t)
      [] value.kind = "int64" ->
            <<"%", "!", "s", "(", "i", "n", "t", "6", "4", "=">>
                \o Itoa(value.n) \o <<")">>

\* s[0:0]
SliceToZero(s) == SubSeq(s, 1, 0)

\* append(s, data...)
GoAppend(s, data) == s \o data

\* a pointer receiver: None is the nil pointer
PtrTo(m) == [kind |-> "ptr", elem |-> m]

\* a variant that reads nil as the text null
JSONRawMessageScanNilAsNull(m, value) ==
    [m |-> Sprintf(IF value = DNil THEN DString(NullLit) ELSE value), err |-> NoErr]

\* func (m *JSONRawMessage) Scan(value interface{}) error: [m, err]
JSONRawMessageScan(m, value) ==
    [m |-> Sprintf(value), err |-> NoErr]

\* a variant that returns SQL NULL for empty contents
JSONRawMessageValueNull(m) ==
    IF Len(m) = 0 THEN [val |-> DNil, err |-> NoErr]
    ELSE [val |-> DString(m), err |-> NoErr]

\* func (m JSONRawMessage) Value() (driver.Value, error): [val, err]
JSONRawMessageValue(m) ==
    IF Len(m) = 0 THEN [val |-> DString(NullLit), err |-> NoErr]
    ELSE [val |-> DString(m), err |-> NoErr]

\* a variant that returns the contents even when they are empty
JSONRawMessageMarshalJSONRaw(m) ==
    [b |-> m, err |-> NoErr]

\* func (m JSONRawMessage) MarshalJSON() ([]byte, error): [b, err]
JSONRawMessageMarshalJSON(m) ==
    IF Len(m) = 0 THEN [b |-> NullLit, err |-> NoErr]
    ELSE [b |-> m, err |-> NoErr]

\* a variant that appends to the contents without truncating them
JSONRawMessageUnmarshalJSONAppend(m, data) ==
    IF m = None
    THEN [m |-> None, err |-> "json.RawMessage: UnmarshalJSON on nil pointer"]
    ELSE [m |-> PtrTo(GoAppend(m.elem, data)), err |-> NoErr]

\* func (m *JSONRawMessage) UnmarshalJSON(data []byte) error: [m, err], m the
\* receiver afterwards
JSONRawMessageUnmarshalJSON(m, data) ==
    IF m = None
    THEN [m |-> None, err |-> "json.RawMessage: UnmarshalJSON on nil pointer"]
    ELSE [m |-> PtrTo(GoAppend(SliceToZero(m.elem), data)), err |-> NoErr]

\* a variant without the nil check
NullJSONRawMessageScanNoNil(m, value) ==
    [m |-> Sprintf(value), err |-> NoErr]

\* func (m *NullJSONRawMessage) Scan(value interface{}) error: [m, err]
NullJSONRawMessageScan(m, value) ==
    LET v == IF value = DNil THEN DString(NullLit) ELSE value
    IN [m |-> Sprintf(v), err |-> NoErr]

\* func (m NullJSONRawMessage) Value() (driver.Value, error): [val, err]
NullJSONRawMessageValue(m) ==
    IF Len(m) = 0 THEN [val |-> DNil, err |-> NoErr]
    ELSE [val |-> DString(m), err |-> NoErr]

\* func (m NullJSONRawMessage) MarshalJSON() ([]byte, error): [b, err]
NullJSONRawMessageMarshalJSON(m) ==
    IF Len(m) = 0 THEN [b |-> NullLit, err |-> NoErr]
    ELSE [b |-> m, err |-> NoErr]

\* func (m *NullJSONRawMessage) UnmarshalJSON(data []byte) error: [m, err]
NullJSONRawMessageUnmarshalJSON(m, data) ==
    IF m = None
    THEN [m |-> None, err |-> "json.RawMessage: UnmarshalJSON on nil pointer"]
    ELSE [m |-> PtrTo(GoAppend(SliceToZero(m.elem), data)), err |-> NoErr]

(***************************************************************************)
(* The calls on the payload types.  Value and MarshalJSON have value       *)
(* receivers; Scan and UnmarshalJSON write through a pointer to jm or njm, *)
(* and UnmarshalJSON may also be called through a nil pointer.  A Scan may *)
(* read back what the last Value of its type returned.                     *)
(***************************************************************************)
RawDriverValues ==
    {DNil, DInt(7), DTime(ZeroTime),
     DTime([year |-> 2024, sec |-> 86400, nsec |-> 120000000, loc |-> EST,
            mono |-> 1])}
    \cup {DString(b) : b \in Payloads}
    \cup {DBytes(b) : b \in Payloads}

CallJSONRawMessageScan ==
    \/ \E value \in RawDriverValues :
         \E r \in {JSONRawMessageScan(jm, value)} :
            /\ jm' = r.m
            /\ last' = [op |-> "JSONRawMessage.Scan", recv |-> jm, arg |-> value,
                        src |-> None, err |-> r.err]
            /\ UNCHANGED <<nt, njm, dst>>
    \/ /\ last.op = "JSONRawMessage.Value"
       /\ \E r \in {JSONRawMessageScan(jm, last.val)} :
             /\ jm' = r.m
             /\ last' = [op |-> "JSONRawMessage.Scan", recv |-> jm, arg |-> last.val,
                         src |-> PtrTo(last.recv), err |-> r.err]
             /\ UNCHANGED <<nt, njm, dst>>

CallJSONRawMessageValue ==
    \E m \in Payloads :
       \E r \in {JSONRawMessageValue(m)} :
          /\ last' = [op |-> "JSONRawMessage.Value", recv |-> m, val |-> r.val,
                      err |-> r.err]
          /\ UNCHANGED <<nt, jm, njm, dst>>

CallJSONRawMessageMarshalJSON ==
    \E m \in Payloads :
       \E r \in {JSONRawMessageMarshalJSON(m)} :
          /\ last' = [op |-> "JSONRawMessage.MarshalJSON", recv |-> m, b |-> r.b,
                      err |-> r.err]
          /\ UNCHANGED <<nt, jm, njm, dst>>

CallJSONRawMessageUnmarshalJSON ==
    \E p \in {None, PtrTo(jm)}, data \in Payloads :
       \E r \in {JSONRawMessageUnmarshalJSON(p, data)} :
          /\ jm' = IF r.m = None THEN jm ELSE r.m.elem
          /\ last' = [op |-> "JSONRawMessage.UnmarshalJSON", recv |-> p, arg |-> data,
                      err |-> r.err]
          /\ UNCHANGED <<nt, njm, dst>>

CallNullJSONRawMessageScan ==
    \/ \E value \in RawDriverValues :
         \E r \in {NullJSONRawMessageScan(njm, value)} :
            /\ njm' = r.m
            /\ last' = [op |-> "NullJSONRawMessage.Scan", recv |-> njm, arg |-> value,
                        src |-> None, err |-> r.err]
            /\ UNCHANGED <<nt, jm, dst>>
    \/ /\ last.op = "NullJSONRawMessage.Value"
       /\ \E r \in {NullJSONRawMessageScan(njm, last.val)} :
             /\ njm' = r.m
             /\ last' = [op |-> "NullJSONRawMessage.Scan", recv |-> njm,
                         arg |-> last.val, src |-> PtrTo(last.recv), err |-> r.err]
             /\ UNCHANGED <<nt, jm, dst>>

CallNullJSONRawMessageValue ==
    \E m \in Payloads :
       \E r \in {NullJSONRawMessageValue(m)} :
          /\ last' = [op |-> "NullJSONRawMessage.Value", recv |-> m, val |-> r.val,
                      err |-> r.err]
          /\ UNCHANGED <<nt, jm, njm, dst>>

CallNullJSONRawMessageMarshalJSON ==
    \E m \in Payloads :
       \E r \in {NullJSONRawMessageMarshalJSON(m)} :
          /\ last' = [op |-> "NullJSONRawMessage.MarshalJSON", recv |-> m, b |-> r.b,
                      err |-> r.err]
          /\ UNCHANGED <<nt, jm, njm, dst>>

CallNullJSONRawMessageUnmarshalJSON ==
    \E p \in {None, PtrTo(njm)}, data \in Payloads :
       \E r \in {NullJSONRawMessageUnmarshalJSON(p, data)} :
          /\ njm' = IF r.m = None THEN njm ELSE r.m.elem
          /\ last' = [op |-> "NullJSONRawMessage.UnmarshalJSON", recv |-> p,
                      arg |-> data, err |-> r.err]
          /\ UNCHANGED <<nt, jm, dst>>

InitRaw ==
    /\ nt = ZeroTime
    /\ jm \in Payloads
    /\ njm \in Payloads
    /\ dst = Var("iface", None)
    /\ last = Start

NextRaw ==
    \/ CallJSONRawMessageScan
    \/ CallJSONRawMessageValue
    \/ CallJSONRawMessageMarshalJSON
    \/ CallJSONRawMessageUnmarshalJSON
    \/ CallNullJSONRawMessageScan
    \/ CallNullJSONRawMessageValue
    \/ CallNullJSONRawMessageMarshalJSON
    \/ CallNullJSONRawMessageUnmarshalJSON

SpecRaw == InitRaw /\ [][NextRaw]_vars

(***************************************************************************)
(* JSONScan and JSONValue.                                                 *)
(*                                                                         *)
(* A Go variable is [type, v].  The dst argument of JSONScan is nil, a     *)
(* non-pointer value, a nil pointer, or a pointer to the caller's          *)
(* variable: [kind, elem].  A src value of JSONValue is [kind, ...].       *)
(***************************************************************************)
SampleTime ==
    [year |-> 2024, sec |-> 86400, nsec |-> 120000000, loc |-> UTC, mono |-> 0]

LateTime ==
    [year |-> 10000, sec |-> 0, nsec |-> 0, loc |-> UTC, mono |-> 0]

\* what encoding/json stores into an interface{} for a JSON value other than null
Generic(item) ==
    IF item = TrueLit THEN [kind |-> "bool", v |-> TRUE]
    ELSE IF item = FalseLit THEN [kind |-> "bool", v |-> FALSE]
    ELSE IF IsJSONNumber(item) THEN [kind |-> "float64", n |-> Atoi(item)]
    ELSE [kind |-> "string", s |-> SubSeq(item, 2, Len(item) - 1)]

\* encoding/json decoding one JSON value other than null into the variable a
\* pointer leads to: [var, err].  A type with an UnmarshalJSON method decodes
\* itself; a nil *int is allocated before its element is decoded.
DecodeValue(var, item) ==
    CASE var.type = "JSONRawMessage" ->
            LET Stored(r) == [var |-> Var(var.type, r.m.elem), err |-> r.err]
            IN Stored(JSONRawMessageUnmarshalJSON(PtrTo(var.v), item))
      [] var.type = "NullTime" ->
            LET Stored(r) == [var |-> Var(var.type, r.ns), err |-> r.err]
            IN Stored(NullTimeUnmarshalJSON(var.v, item))
      [] var.type = "int" ->
            IF IsJSONNumber(item)
            THEN [var |-> Var(var.type, Atoi(item)), err |-> NoErr]
            ELSE [var |-> var, err |-> "json: cannot unmarshal into Go value of type int"]
      [] var.type = "string" ->
            IF IsJSONString(item)
            THEN [var |-> Var(var.type, SubSeq(item, 2, Len(item) - 1)), err |-> NoErr]
            ELSE [var |-> var, err |-> "json: cannot unmarshal into Go value of type string"]
      [] var.type = "iface" ->
            [var |-> Var(var.type, Generic(item)), err |-> NoErr]
      [] var.type = "ptr" ->
            IF IsJSONNumber(item)
            THEN [var |-> Var(var.type, PtrTo(Atoi(item))), err |-> NoErr]
            ELSE [var |-> Var(var.type, PtrTo(IF var.v = None THEN 0 ELSE var.v.elem)),
                  err |-> "json: cannot unmarshal into Go value of type int"]

\* encoding/json storing one JSON value through &dst, dst being JSONScan's
\* interface{} parameter: [dst, err].  The decoder goes from the parameter into a
\* non-nil pointer it holds, but for the JSON value null only when that pointer
\* leads to another pointer; otherwise the value is stored into the parameter
\* itself, which the caller never sees.
JSONStoreIface(dest, item) ==
    IF dest.kind # "ptr" THEN [dst |-> dest, err |-> NoErr]
    ELSE IF item # NullLit
    THEN LET Stored(r) == [dst |-> PtrTo(r.var), err |-> r.err]
         IN Stored(DecodeValue(dest.elem, item))
    ELSE IF dest.elem.type = "ptr"
    THEN [dst |-> PtrTo(Var("ptr", None)), err |-> NoErr]
    ELSE [dst |-> dest, err |-> NoErr]

\* json.Unmarshal(data, &dst): [dst, err]
JSONUnmarshalIface(dest, data) ==
    IF ~JSONValid(data) THEN [dst |-> dest, err |-> "json: syntax error"]
    ELSE JSONStoreIface(dest, TrimSpace(data))

\* func JSONScan(dst interface{}, value interface{}) error: [dst, err]
JSONScan(dest, value) ==
    LET v == IF value = GoNil THEN DString(NullLit) ELSE value
        Wrapped(r) ==
            IF r.err # NoErr
            THEN [dst |-> r.dst, err |-> "unable to decode payload to: " \o r.err]
            ELSE [dst |-> r.dst, err |-> NoErr]
    IN Wrapped(JSONUnmarshalIface(dest, Sprintf(v)))

\* the body of a JSON string: quotes and backslashes escaped, < as <
RECURSIVE EscapeString(_)
EscapeString(s) ==
    IF Len(s) = 0 THEN <<>>
    ELSE (CASE s[1] = Quote -> <<"\\", Quote>>
            [] s[1] = "\\" -> <<"\\", "\\">>
            [] s[1] = "<" -> <<"\\", "u", "0", "0", "3", "c">>
            [] OTHER -> <<s[1]>>)
         \o EscapeString(Tail(s))

\* json.Marshal(v): [b, err].  What a MarshalJSON method returns must be JSON.
JSONMarshal(v) ==
    CASE v.kind = "nilptr" -> [b |-> NullLit, err |-> NoErr]
      [] v.kind = "chan" -> [b |-> <<>>, err |-> "json: unsupported type: chan int"]
      [] v.kind = "bool" -> [b |-> IF v.v THEN TrueLit ELSE FalseLit, err |-> NoErr]
      [] v.kind = "int" -> [b |-> Itoa(v.n), err |-> NoErr]
      [] v.kind = "string" ->
            [b |-> <<Quote>> \o EscapeString(v.s) \o <<Quote>>, err |-> NoErr]
      [] v.kind = "JSONRawMessage" ->
            LET Compact(r) ==
                    IF r.err # NoErr \/ ~JSONValid(r.b)
                    THEN [b |-> <<>>,
                          err |-> "json: error calling MarshalJSON for type types.JSONRawMessage"]
                    ELSE [b |-> TrimSpace(r.b), err |-> NoErr]
            IN Compact(JSONRawMessageMarshalJSON(v.m))
      [] v.kind = "NullTime" ->
            LET Compact(r) ==
                    IF r.err # NoErr \/ ~JSONValid(r.b)
                    THEN [b |-> <<>>,
                          err |-> "json: error calling MarshalJSON for type types.NullTime"]
                    ELSE [b |-> TrimSpace(r.b), err |-> NoErr]
            IN Compact(NullTimeMarshalJSON(v.t))

\* json.NewEncoder(&b).Encode(&src): the JSON encoding followed by a newline
JSONEncoderEncode(v) ==
    LET Ended(r) == IF r.err # NoErr THEN r ELSE [b |-> r.b \o <<"\n">>, err |-> NoErr]
    IN Ended(JSONMarshal(v))

\* a variant that encodes a nil source too
JSONValueNoNilCheck(src) ==
    LET Text(e) == IF e.err # NoErr THEN [val |-> DNil, err |-> e.err]
                   ELSE [val |-> DString(e.b), err |-> NoErr]
    IN Text(JSONEncoderEncode(IF src = GoNil THEN [kind |-> "nilptr"] ELSE src))

\* func JSONValue(src interface{}) (driver.Value, error): [val, err]
JSONValue(src) ==
    IF src = GoNil THEN [val |-> DNil, err |-> NoErr]
    ELSE LET Text(e) == IF e.err # NoErr THEN [val |-> DNil, err |-> e.err]
                        ELSE [val |-> DString(e.b), err |-> NoErr]
         IN Text(JSONEncoderEncode(src))

(***************************************************************************)
(* The calls of the helpers.  dst is the caller's variable; JSONScan is    *)
(* handed nil, a copy of it, a nil pointer or a pointer to it.             *)
(***************************************************************************)
DstVars ==
    { Var("int", 5), Var("string", <<"x">>),
      Var("iface", None), Var("iface", [kind |-> "float64", n |-> 5]),
      Var("ptr", None), Var("ptr", PtrTo(5)),
      Var("JSONRawMessage", <<>>), Var("JSONRawMessage", <<"x">>),
      Var("NullTime", ZeroTime), Var("NullTime", SampleTime) }

JSONTexts ==
    { NullLit, <<" ">> \o NullLit, <<"7">>, Itoa(MaxInt), <<Quote, "x", Quote>>,
      TrueLit, <<"t", "r", "u">>, <<>>,
      <<Quote>> \o FormatRFC3339Nano(SampleTime) \o <<Quote>> }

JSONColumnValues ==
    {GoNil, DInt(7)} \cup {DString(x) : x \in JSONTexts} \cup {DBytes(x) : x \in JSONTexts}

SrcValues ==
    {GoNil, [kind |-> "nilptr"], [kind |-> "chan"]}
    \cup {[kind |-> "bool", v |-> b] : b \in BOOLEAN}
    \cup {[kind |-> "int", n |-> n] : n \in 0..MaxInt}
    \cup {[kind |-> "string", s |-> x] : x \in {<<>>, <<"x">>, <<"<">>, <<Quote>>}}
    \cup {[kind |-> "JSONRawMessage", m |-> m] : m \in Payloads}
    \cup {[kind |-> "NullTime", t |-> t] : t \in {ZeroTime, SampleTime, LateTime}}

CallJSONScan ==
    \E arg \in {GoNil, [kind |-> "value", elem |-> dst], [kind |-> "nilptr"], PtrTo(dst)},
       value \in JSONColumnValues :
       \E r \in {JSONScan(arg, value)} :
          /\ dst' = IF r.dst.kind = "ptr" THEN r.dst.elem ELSE dst
          /\ last' = [op |-> "JSONScan", dst |-> arg, arg |-> value, err |-> r.err]
          /\ UNCHANGED <<nt, jm, njm>>

CallJSONValue ==
    \E src \in SrcValues :
       \E r \in {JSONValue(src)} :
          /\ last' = [op |-> "JSONValue", src |-> src, val |-> r.val, err |-> r.err]
          /\ UNCHANGED <<nt, jm, njm, dst>>

InitJSON ==
    /\ nt = ZeroTime
    /\ jm = <<>>
    /\ njm = <<>>
    /\ dst \in DstVars
    /\ last = Start

NextJSON ==
    \/ CallJSONScan
    \/ CallJSONValue

SpecJSON == InitJSON /\ [][NextJSON]_vars

(***************************************************************************)
(* Claims about NullTime, checked under SpecTime.                          *)
(***************************************************************************)
\* b is a JSON string holding an RFC 3339 date-time
IsQuotedDateTime(b) ==
    IsJSONString(b) /\ ParseRFC3339(SubSeq(b, 2, Len(b) - 1)).ok

\* the wall-clock year of t in its Location is one MarshalJSON can write
YearInRange(t) == Civil(t).year >= 0 /\ Civil(t).year < 10000

\* C1 as stated: Value() returns SQL NULL exactly for the zero instant and the
\* instant itself otherwise; MarshalJSON() returns null exactly for the zero
\* instant and, for every non-zero instant, a quoted date-time string.
C1_Original ==
    /\ last.op = "NullTime.Value" =>
         /\ last.err = NoErr
         /\ (last.val = DNil <=> IsZero(last.recv))
         /\ (~IsZero(last.recv) => last.val = DTime(last.recv))
    /\ last.op = "NullTime.MarshalJSON" =>
         /\ (last.b = NullLit <=> IsZero(last.recv))
         /\ (IsZero(last.recv) => last.err = NoErr)
         /\ (~IsZero(last.recv) => last.err = NoErr /\ IsQuotedDateTime(last.b))

\* C1 amended: as C1, except that MarshalJSON() of a non-zero instant returns a
\* quoted date-time string only when the year of the instant in its Location
\* lies in [0, 9999]; outside that range it returns an error and no bytes.
C1_SentinelOutputs ==
    /\ last.op = "NullTime.Value" =>
         /\ last.err = NoErr
         /\ (last.val = DNil <=> IsZero(last.recv))
         /\ (~IsZero(last.recv) => last.val = DTime(last.recv))
    /\ last.op = "NullTime.MarshalJSON" =>
         /\ (last.b = NullLit <=> IsZero(last.recv))
         /\ (IsZero(last.recv) => last.err = NoErr)
         /\ (~IsZero(last.recv) /\ YearInRange(last.recv) =>
                last.err = NoErr /\ IsQuotedDateTime(last.b))
         /\ (~IsZero(last.recv) /\ ~YearInRange(last.recv) =>
                last.err # NoErr /\ last.b = <<>>)

\* MarshalJSON was called on the zero instant held in a Location other than UTC
C1_Witness ==
    /\ last.op = "NullTime.MarshalJSON"
    /\ IsZero(last.recv)
    /\ last.recv.loc # UTC
    /\ last.b = NullLit

\* C2: UnmarshalJSON of the JSON literal null, and Scan of SQL NULL, succeed and
\* leave the receiver at the zero instant, whatever it held before.
C2_NullInputsReset ==
    /\ (last.op = "NullTime.UnmarshalJSON" /\ TrimSpace(last.arg) = NullLit) =>
         (last.err = NoErr /\ nt = ZeroTime)
    /\ (last.op = "NullTime.Scan" /\ last.arg = DNil) =>
         (last.err = NoErr /\ nt = ZeroTime)

\* null was unmarshalled into a receiver that held a non-zero instant
C2_Witness ==
    /\ last.op = "NullTime.UnmarshalJSON"
    /\ last.arg = NullLit
    /\ ~IsZero(last.recv)
    /\ nt = ZeroTime

\* C3 as stated, reading "equal" as the same instant: for a non-zero t, Scan of
\* what Value() returned and UnmarshalJSON of what MarshalJSON() returned both
\* succeed and leave the receiver equal to t.
C3_Original ==
    /\ (last.op = "NullTime.Scan" /\ last.src # None /\ ~IsZero(last.src)) =>
         (last.err = NoErr /\ SameInstant(nt, last.src))
    /\ (last.op = "NullTime.UnmarshalJSON" /\ last.src # None /\ ~IsZero(last.src)) =>
         (last.err = NoErr /\ SameInstant(nt, last.src))

\* C3 amended: for a non-zero t, Scan of what Value() returned leaves the receiver
\* identical to t.  UnmarshalJSON of the bytes MarshalJSON() returned succeeds and
\* leaves a time without monotonic reading, in UTC, Local or an unnamed fixed
\* zone, whose offset is t's offset cut to whole minutes; it is the instant of t
\* when t's offset is a whole number of minutes, and otherwise the instant of t
\* moved by the seconds cut off.
C3_RoundTrip ==
    /\ (last.op = "NullTime.Scan" /\ last.src # None /\ ~IsZero(last.src)) =>
         (last.err = NoErr /\ nt = last.src)
    /\ (last.op = "NullTime.UnmarshalJSON" /\ last.src # None /\ ~IsZero(last.src)) =>
         LET off == last.src.loc.offset
             cut == ZoneMinutes(off) * 60
             moved == AddSec(last.src.year, last.src.sec, off - cut)
         IN /\ last.err = NoErr
            /\ nt.mono = 0
            /\ nt.loc.offset = cut
            /\ nt.loc.name \in {"UTC", "Local", ""}
            /\ nt.year = moved.year /\ nt.sec = moved.sec /\ nt.nsec = last.src.nsec
            /\ (off = cut => SameInstant(nt, last.src))

\* the JSON of a time with a monotonic reading, in a named zone, was read back
\* into a receiver that held another instant
C3_Witness ==
    /\ last.op = "NullTime.UnmarshalJSON"
    /\ last.src # None
    /\ ~IsZero(last.src)
    /\ last.src.mono # 0
    /\ last.src.loc = EST
    /\ ~SameInstant(last.recv, last.src)
    /\ SameInstant(nt, last.src)


(***************************************************************************)
(* Claims about JSONRawMessage and NullJSONRawMessage, checked under       *)
(* SpecRaw.                                                                *)
(***************************************************************************)
\* C4: Value() of an empty JSONRawMessage is the text "null" and of an empty
\* NullJSONRawMessage is SQL NULL; of non-empty contents b both are the text b;
\* JSONRawMessage.Value() is never SQL NULL and neither returns an error.
C4_ValueOnEmpty ==
    /\ last.op = "JSONRawMessage.Value" =>
         /\ last.err = NoErr
         /\ last.val # DNil
         /\ (Len(last.recv) = 0 => last.val = DString(NullLit) /\ Len(last.val.s) = 4)
         /\ (Len(last.recv) # 0 => last.val = DString(last.recv))
    /\ last.op = "NullJSONRawMessage.Value" =>
         /\ last.err = NoErr
         /\ (Len(last.recv) = 0 => last.val = DNil)
         /\ (Len(last.recv) # 0 => last.val = DString(last.recv))

\* Value() was called on an empty NullJSONRawMessage
C4_Witness ==
    /\ last.op = "NullJSONRawMessage.Value"
    /\ last.recv = <<>>
    /\ last.val = DNil

\* C5: MarshalJSON of either payload type returns non-empty contents unchanged
\* and the literal null for empty contents, never an error and never no bytes.
C5_MarshalPassThrough ==
    last.op \in {"JSONRawMessage.MarshalJSON", "NullJSONRawMessage.MarshalJSON"} =>
        /\ last.err = NoErr
        /\ (Len(last.recv) # 0 => last.b = last.recv)
        /\ (Len(last.recv) = 0 => last.b = NullLit)
        /\ Len(last.b) > 0

\* MarshalJSON was called on an empty JSONRawMessage
C5_Witness ==
    /\ last.op = "JSONRawMessage.MarshalJSON"
    /\ last.recv = <<>>
    /\ last.b = NullLit

\* C6: UnmarshalJSON of either payload type through a nil receiver returns an
\* error and changes nothing; through a non-nil receiver it succeeds for any
\* bytes d and leaves the contents equal to d, whatever they were, so that
\* doing it again with d changes nothing.
C6_UnmarshalReplaces ==
    [][ /\ last'.op = "JSONRawMessage.UnmarshalJSON" =>
             IF last'.recv = None
             THEN last'.err # NoErr /\ UNCHANGED <<nt, jm, njm, dst>>
             ELSE /\ last'.err = NoErr
                  /\ last'.recv = PtrTo(jm)
                  /\ jm' = last'.arg
                  /\ JSONRawMessageUnmarshalJSON(PtrTo(jm'), last'.arg).m = PtrTo(jm')
                  /\ UNCHANGED <<nt, njm, dst>>
        /\ last'.op = "NullJSONRawMessage.UnmarshalJSON" =>
             IF last'.recv = None
             THEN last'.err # NoErr /\ UNCHANGED <<nt, jm, njm, dst>>
             ELSE /\ last'.err = NoErr
                  /\ last'.recv = PtrTo(njm)
                  /\ njm' = last'.arg
                  /\ NullJSONRawMessageUnmarshalJSON(PtrTo(njm'), last'.arg).m = PtrTo(njm')
                  /\ UNCHANGED <<nt, jm, dst>>
      ]_vars

\* non-empty bytes were unmarshalled over other non-empty contents
C6_Witness ==
    /\ last.op = "JSONRawMessage.UnmarshalJSON"
    /\ last.recv # None
    /\ Len(last.recv.elem) > 0
    /\ Len(last.arg) > 0
    /\ last.recv.elem # last.arg
    /\ jm = last.arg

\* MarshalJSON and UnmarshalJSON of the two payload types agree on every input
RawJSONMethodsAgree ==
    /\ last.op = "JSONRawMessage.MarshalJSON" =>
         [b |-> last.b, err |-> last.err] = NullJSONRawMessageMarshalJSON(last.recv)
    /\ last.op = "NullJSONRawMessage.MarshalJSON" =>
         [b |-> last.b, err |-> last.err] = JSONRawMessageMarshalJSON(last.recv)
    /\ last.op = "JSONRawMessage.UnmarshalJSON" =>
         LET o == NullJSONRawMessageUnmarshalJSON(last.recv, last.arg)
         IN last.err = o.err /\ (last.recv # None => jm = o.m.elem)
    /\ last.op = "NullJSONRawMessage.UnmarshalJSON" =>
         LET o == JSONRawMessageUnmarshalJSON(last.recv, last.arg)
         IN last.err = o.err /\ (last.recv # None => njm = o.m.elem)

\* C9 as stated: for every driver value, nil included, Scan of the two payload
\* types returns the same result and stores the same bytes, and MarshalJSON and
\* UnmarshalJSON agree on every input.
C9_Original ==
    /\ RawJSONMethodsAgree
    /\ last.op = "JSONRawMessage.Scan" =>
         LET o == NullJSONRawMessageScan(last.recv, last.arg)
         IN last.err = o.err /\ jm = o.m
    /\ last.op = "NullJSONRawMessage.Scan" =>
         LET o == JSONRawMessageScan(last.recv, last.arg)
         IN last.err = o.err /\ njm = o.m

\* C9 amended: the two Scans agree on every driver value other than nil; for nil
\* both succeed, NullJSONRawMessage storing the bytes null and JSONRawMessage
\* storing fmt's text for a nil operand, %!s(<nil>).  MarshalJSON and
\* UnmarshalJSON agree on every input.
C9_ScanAgreesExceptNil ==
    /\ RawJSONMethodsAgree
    /\ last.op = "JSONRawMessage.Scan" =>
         LET o == NullJSONRawMessageScan(last.recv, last.arg)
         IN /\ last.err = o.err
            /\ last.arg # DNil => jm = o.m
            /\ last.arg = DNil => jm = NilVerb /\ o.m = NullLit
    /\ last.op = "NullJSONRawMessage.Scan" =>
         LET o == JSONRawMessageScan(last.recv, last.arg)
         IN /\ last.err = o.err
            /\ last.arg # DNil => njm = o.m
            /\ last.arg = DNil => njm = NullLit /\ o.m = NilVerb

\* a JSONRawMessage scanned a time.Time column value
C9_Witness ==
    /\ last.op = "JSONRawMessage.Scan"
    /\ last.arg.kind = "time"
    /\ last.arg.t.mono # 0
    /\ jm = TimeString(last.arg.t)
    /\ jm # last.recv

\* C10: for either payload type and any contents m, Scan of what Value() of m
\* returned succeeds and leaves a receiver r with the MarshalJSON of m; r = m for
\* non-empty m, and r holds the four bytes null for empty m, so that Value() of
\* that NullJSONRawMessage is the text "null" and no longer SQL NULL.
C10_ValueScanKeepsJSON ==
    /\ (last.op = "JSONRawMessage.Scan" /\ last.src # None) =>
         LET m == last.src.elem
         IN /\ last.err = NoErr
            /\ JSONRawMessageMarshalJSON(jm) = JSONRawMessageMarshalJSON(m)
            /\ (Len(m) # 0 => jm = m)
            /\ (Len(m) = 0 => jm = NullLit)
    /\ (last.op = "NullJSONRawMessage.Scan" /\ last.src # None) =>
         LET m == last.src.elem
         IN /\ last.err = NoErr
            /\ NullJSONRawMessageMarshalJSON(njm) = NullJSONRawMessageMarshalJSON(m)
            /\ (Len(m) # 0 => njm = m)
            /\ (Len(m) = 0 =>
                  njm = NullLit /\ NullJSONRawMessageValue(njm).val = DString(NullLit))

\* the SQL NULL written for an empty NullJSONRawMessage was scanned into a
\* receiver that held other contents
C10_Witness ==
    /\ last.op = "NullJSONRawMessage.Scan"
    /\ last.src = PtrTo(<<>>)
    /\ last.arg = DNil
    /\ Len(last.recv) > 0
    /\ last.recv # NullLit
    /\ njm = NullLit


(***************************************************************************)
(* Claims about JSONValue and JSONScan, checked under SpecJSON.            *)
(***************************************************************************)
\* C7 as stated: JSONValue of nil is SQL NULL without error; of a non-nil source
\* that can be encoded it is, without error, the text of the JSON encoding of
\* the source; when encoding fails it is the error and no value.
C7_Original ==
    last.op = "JSONValue" =>
        LET m == JSONMarshal(IF last.src = GoNil THEN [kind |-> "nilptr"] ELSE last.src)
        IN /\ last.src = GoNil => last.val = DNil /\ last.err = NoErr
           /\ (last.src # GoNil /\ m.err = NoErr) =>
                last.err = NoErr /\ last.val = DString(m.b)
           /\ (last.src # GoNil /\ m.err # NoErr) =>
                last.err = m.err /\ last.val = DNil

\* C7 amended: as C7, except that the text returned for a non-nil source is the
\* JSON encoding of the source followed by one newline character.
C7_EncodeWithNewline ==
    last.op = "JSONValue" =>
        LET m == JSONMarshal(IF last.src = GoNil THEN [kind |-> "nilptr"] ELSE last.src)
        IN /\ last.src = GoNil => last.val = DNil /\ last.err = NoErr
           /\ (last.src # GoNil /\ m.err = NoErr) =>
                last.err = NoErr /\ last.val = DString(m.b \o <<"\n">>)
           /\ (last.src # GoNil /\ m.err # NoErr) =>
                last.err = m.err /\ last.val = DNil

\* JSONValue encoded a non-nil source of two digits
C7_Witness ==
    /\ last.op = "JSONValue"
    /\ last.src.kind = "int"
    /\ last.src.n >= 10
    /\ last.err = NoErr
    /\ last.val.kind = "string"
    /\ Len(last.val.s) = 3

\* json.Unmarshal([]byte("null"), dst): the destination after decoding the JSON
\* literal null into it.  A type with an UnmarshalJSON method decodes null
\* itself; an interface or pointer variable becomes nil; an int or string keeps
\* its value; nil, a non-pointer and a nil pointer are refused.
DecodeNullInto(dest) ==
    IF dest.kind # "ptr" THEN dest
    ELSE CASE dest.elem.type = "JSONRawMessage" ->
                PtrTo(Var("JSONRawMessage",
                          JSONRawMessageUnmarshalJSON(PtrTo(dest.elem.v), NullLit).m.elem))
           [] dest.elem.type = "NullTime" ->
                PtrTo(Var("NullTime", NullTimeUnmarshalJSON(dest.elem.v, NullLit).ns))
           [] dest.elem.type \in {"iface", "ptr"} -> PtrTo(Var(dest.elem.type, None))
           [] OTHER -> dest

ErrPrefix == "unable to decode payload to: "

\* C8 as stated: JSONScan(dst, nil) and JSONScan(dst, "null") both succeed and
\* leave dst in the same state, the state decoding the JSON literal null into
\* dst produces; a column value that is not JSON gives an error that starts
\* with "unable to decode payload to".
C8_Original ==
    last.op = "JSONScan" =>
        /\ last.arg \in {GoNil, DString(NullLit)} =>
             /\ last.err = NoErr
             /\ JSONScan(last.dst, GoNil) = JSONScan(last.dst, DString(NullLit))
             /\ (last.dst.kind = "ptr" => PtrTo(dst) = DecodeNullInto(last.dst))
        /\ ~JSONValid(Sprintf(last.arg)) /\ last.arg # GoNil =>
             /\ last.err # NoErr
             /\ Len(last.err) > Len(ErrPrefix)
             /\ SubSeq(last.err, 1, Len(ErrPrefix)) = ErrPrefix

\* JSONScan was handed a pointer to an interface variable holding a number,
\* and nil as the column value
C8_Witness ==
    /\ last.op = "JSONScan"
    /\ last.arg = GoNil
    /\ last.err = NoErr
    /\ last.dst.kind = "ptr"
    /\ last.dst.elem = Var("iface", [kind |-> "float64", n |-> 5])

=============================================================================
